---- MODULE Spec2Model ----
(***************************************************************************)
(* Model of src/agent.py: the AICodeAgent workflow (reasoning, code        *)
(* generation, dependency listing, output writer) and the CLI entry point. *)
(* Texts are sequences of strings; reasoning and code texts are spelled    *)
(* character by character so that Python's substring tests (`in`) and      *)
(* str.lower() are computed, not assumed.  Timestamps (log lines,          *)
(* metadata generated_at) are left out of the state.                       *)
(***************************************************************************)
EXTENDS Integers, Sequences, FiniteSets, TLC

\* ------------------------------------------------------------------ bounds
\* number of times the program is started against the same working directory
MaxRuns == 2

\* ------------------------------------------------------------------- texts
T_import == <<"i","m","p","o","r","t">>
T_import_os == T_import \o <<" ","o","s">>
T_import_sys == T_import \o <<" ","s","y","s">>
T_def == <<"d","e","f"," ">>
T_python == <<"p","y","t","h","o","n">>

UpperChars == <<"A","B","C","D","E","F","G","H","I","J","K","L","M",
                "N","O","P","Q","R","S","T","U","V","W","X","Y","Z">>
LowerChars == <<"a","b","c","d","e","f","g","h","i","j","k","l","m",
                "n","o","p","q","r","s","t","u","v","w","x","y","z">>

\* str.lower() on one character
LowerChar(c) ==
  IF \E i \in 1..26 : UpperChars[i] = c
    THEN LowerChars[CHOOSE i \in 1..26 : UpperChars[i] = c]
    ELSE c

\* str.lower()
Lower(text) == [i \in 1..Len(text) |-> LowerChar(text[i])]

\* Python's `pat in text` for strings
Contains(text, pat) ==
  \E i \in 0..(Len(text) - Len(pat)) : SubSeq(text, i + 1, i + Len(pat)) = pat

\* ------------------------------------------------------------------ inputs
\* topics given on the command line
Topics == { <<"weather app">>, <<"todo list">> }

\* message.content of the stage-1 completion
Reasonings == { <<"P","y","t","h","o","n">>, <<"N","o","d","e">> }

\* message.content of the stage-2 completion
CodeTexts == { T_import_os,
               T_import \o <<" ","x","\n">> \o T_def \o <<"f">>,
               T_def \o <<"f">>,
               T_import \o <<" ","x">> }

\* message.content of the stage-3 completion ("" is falsy at line 159)
RequirementTexts == { <<"requests==2.28.1">>, <<>> }

\* an optional string: None, or a str
None == [set |-> FALSE, value |-> <<>>]
Some(t) == [set |-> TRUE, value |-> t]
\* Python truthiness of an optional string
Truthy(o) == o.set /\ o.value # <<>>
\* Python `a or b`
PyOr(a, b) == IF Truthy(a) THEN a ELSE b

\* variant: `if self.api_key is None`
CredentialMissing_NoneOnly(k) == ~k.set

\* `if not self.api_key`
CredentialMissing(k) == ~Truthy(k)

\* --api-key and GITHUB_MODEL_API_KEY: absent, empty, or a key
KeyValues == { None, Some(<<>>), Some(<<"ghp_key">>) }

\* command lines: a topic, no topic, or -h
ArgvKinds == { "topic", "missing_topic", "help" }

\* str(e) of the exceptions the collaborators raise
ApiError == <<"Connection error.">>
IoError == <<"[Errno 13] Permission denied">>

\* where a file operation of the writer may raise OSError
IoFaults == { "none", "mkdir", "open_main", "write_main",
              "open_req", "write_req", "open_meta", "dump_meta" }

\* ------------------------------------------------------------- file system
OutputDir == "generated-code"
MainPy == "main.py"
MainJs == "main.js"
ReqFile == "requirements.txt"
MetaFile == "metadata.json"

\* str(output_dir / name)
PathOf(name) == <<OutputDir, "/", name>>

NoMeta == [exists |-> FALSE, valid |-> FALSE, topic |-> <<>>,
           language |-> "", files |-> <<>>]
\* metadata.json opened with "w" and not (completely) written
TruncatedMeta == [NoMeta EXCEPT !.exists = TRUE]

\* the working directory before the program ever ran
NoFiles == [n \in {} |-> <<>>]
EmptyFs == [exists |-> FALSE, files |-> NoFiles, meta |-> NoMeta]

\* output_dir.glob("*")
Glob(f) == IF ~f.exists THEN {}
           ELSE DOMAIN f.files \cup (IF f.meta.exists THEN {MetaFile} ELSE {})

Extend(fn, name, text) ==
  [n \in DOMAIN fn \cup {name} |-> IF n = name THEN text ELSE fn[n]]

\* open(name, "w"): create or truncate
OpenW(f, name) == [f EXCEPT !.files = Extend(f.files, name, <<>>)]

\* variant: the file is opened with "a"
WriteFile_Append(f, name, text) ==
  [f EXCEPT !.files =
     Extend(f.files, name,
            (IF name \in DOMAIN f.files THEN f.files[name] ELSE <<>>) \o text)]

\* with open(name, "w") as fh: fh.write(text)
WriteFile(f, name, text) == [f EXCEPT !.files = Extend(f.files, name, text)]

\* variant: the directory is emptied before it is used
Mkdir_Fresh(f) == [exists |-> TRUE, files |-> NoFiles, meta |-> NoMeta]

\* output_dir.mkdir(exist_ok=True)
Mkdir(f) == IF f.exists THEN f
            ELSE [exists |-> TRUE, files |-> NoFiles, meta |-> NoMeta]

\* ---------------------------------------------------------------- the log
\* AICodeAgent.log: append the line "[timestamp] [level] message"
Log(buf, level, message) == Append(buf, <<"[ts] [", level, "] ">> \o message)

\* "\n".join(log_buffer)
RECURSIVE JoinLines(_)
JoinLines(buf) ==
  IF buf = <<>> THEN <<>>
  ELSE IF Len(buf) = 1 THEN buf[1]
  ELSE buf[1] \o <<"\n">> \o JoinLines(Tail(buf))

\* ------------------------------------------------------------- the writer
\* variant: the `"import" in code` conjunct is dropped
DetectLanguage_NoImportCheck(c) ==
  IF Contains(c, T_import_os) \/ Contains(c, T_import_sys) \/ Contains(c, T_def)
    THEN "python" ELSE "javascript"

\* the language-detection heuristic of save_generated_code
DetectLanguage(c) ==
  IF Contains(c, T_import)
     /\ (Contains(c, T_import_os) \/ Contains(c, T_import_sys) \/ Contains(c, T_def))
    THEN "python" ELSE "javascript"

MainFileOf(language) == IF language = "python" THEN MainPy ELSE MainJs

\* variant: `if requirements`
WritesRequirements_AnyLanguage(req, language) == Truthy(req)

\* `if requirements and language == "python"`
WritesRequirements(req, language) == Truthy(req) /\ language = "python"

\* the `files` entry of the metadata record
MetadataFiles(main_file, wroteReq) == << PathOf(main_file) >>

Raised(f, buf, w) == [ok |-> FALSE, fs |-> f, log |-> buf, written |-> w]

\* save_generated_code(topic, code, requirements) run on file system f with
\* log buffer buf; fault names the file operation that raises, if any.
\* Result: the file system and log buffer it leaves, the files it wrote,
\* and whether it returned (ok) or raised.
SaveGeneratedCode(f, buf, t, c, req, fault) ==
  IF fault = "mkdir" THEN Raised(f, buf, {})
  ELSE
  LET f1 == Mkdir(f)
      language == DetectLanguage(c)
      main_file == MainFileOf(language)
  IN
  IF fault = "open_main" THEN Raised(f1, buf, {})
  ELSE IF fault = "write_main" THEN Raised(OpenW(f1, main_file), buf, {})
  ELSE
  LET f2 == WriteFile(f1, main_file, c)
      buf2 == Log(buf, "OBSERVE", <<"Saved code to ">> \o PathOf(main_file))
      doReq == WritesRequirements(req, language)
  IN
  IF doReq /\ fault = "open_req" THEN Raised(f2, buf2, {main_file})
  ELSE IF doReq /\ fault = "write_req"
    THEN Raised(OpenW(f2, ReqFile), buf2, {main_file})
  ELSE
  LET f3 == IF doReq THEN WriteFile(f2, ReqFile, req.value) ELSE f2
      buf3 == IF doReq
                THEN Log(buf2, "OBSERVE",
                         <<"Saved requirements to ">> \o PathOf(ReqFile))
                ELSE buf2
      w3 == IF doReq THEN {main_file, ReqFile} ELSE {main_file}
      metadata == [exists |-> TRUE, valid |-> TRUE, topic |-> t,
                   language |-> language,
                   files |-> MetadataFiles(main_file, doReq)]
  IN
  IF fault = "open_meta" THEN Raised(f3, buf3, w3)
  ELSE IF fault = "dump_meta"
    THEN Raised([f3 EXCEPT !.meta = TruncatedMeta], buf3, w3)
  ELSE [ok |-> TRUE, fs |-> [f3 EXCEPT !.meta = metadata], log |-> buf3,
        written |-> w3 \cup {MetaFile}]

\* ------------------------------------------------------------------- state
VARIABLES
  pc,           \* position of main(): "main", "agent_init", "generate_full", "exited"
  state,        \* position of generate_full in the workflow
  argvKind,     \* the kind of command line main() was started with
  args,         \* the parsed arguments: topic and --api-key
  env,          \* value of GITHUB_MODEL_API_KEY read by the constructor
  api_key,      \* self.api_key
  client,       \* TRUE once self.client has been built
  log_buffer,   \* self.log_buffer
  reasoning,    \* local `reasoning` of generate_full
  code,         \* local `code` of generate_full
  requirements, \* local `requirements` of generate_full
  result,       \* the dict generate_full returns
  exitCode,     \* process exit status, NoExit while running
  fatal,        \* TRUE when main's except branch printed "Fatal error"
  fs,           \* the generated-code directory
  calls,        \* history: stages invoked by this process, in order
  written,      \* history: files completely written by the writer in this process
  raisedIn,     \* history: the stage whose exception generate_full caught
  fs0,          \* history: the directory when this process started
  prev,         \* history: inputs of the previous process, if it succeeded
  runs          \* number of processes started so far

vars == << pc, state, argvKind, args, env, api_key, client, log_buffer,
           reasoning, code, requirements, result, exitCode, fatal, fs,
           calls, written, raisedIn, fs0, prev, runs >>

NoExit == -1
NoArgs == [topic |-> <<>>, api_key |-> None]
NoResult == [status |-> "none", error |-> <<>>, output_dir |-> "",
             logs |-> <<>>, files |-> {}]
NoPrev == [status |-> "none", topic |-> <<>>, reasoning |-> <<>>,
           code |-> <<>>, requirements |-> None, language |-> ""]

\* a freshly started process: nothing parsed, nothing constructed
ProcessStart ==
  /\ pc = "main"
  /\ state = "NONE"
  /\ argvKind = "none"
  /\ args = NoArgs
  /\ env = None
  /\ api_key = None
  /\ client = FALSE
  /\ log_buffer = <<>>
  /\ reasoning = <<>>
  /\ code = <<>>
  /\ requirements = None
  /\ result = NoResult
  /\ exitCode = NoExit
  /\ fatal = FALSE
  /\ calls = <<>>
  /\ written = {}
  /\ raisedIn = "none"

Init ==
  /\ ProcessStart
  /\ fs = EmptyFs
  /\ fs0 = EmptyFs
  /\ prev = NoPrev
  /\ runs = 1

\* variant: `"python" in reasoning`
NeedsRequirements_CaseSensitive(r) == Contains(r, T_python)

\* `"python" in reasoning.lower()`
NeedsRequirements(r) == Contains(Lower(r), T_python)

\* variant: the dict is built from the log as it was before log("ERROR", ...)
ErrorResult_StaleLog(buf, msg) ==
  [status |-> "error", error |-> msg, output_dir |-> "",
   logs |-> JoinLines(buf), files |-> {}]

\* the error dict of generate_full's except branch, after log("ERROR", str(e))
ErrorResult(buf, msg) ==
  [NoResult EXCEPT !.status = "error", !.error = msg,
                   !.logs = JoinLines(Log(buf, "ERROR", msg))]

\* the success dict of generate_full
SuccessResult(buf, f) ==
  [NoResult EXCEPT !.status = "success", !.output_dir = OutputDir,
                   !.logs = JoinLines(buf), !.files = Glob(f)]

\* variants: main returns 0 whatever the status; the two statuses swapped
ExitStatus_AlwaysZero(res) == 0
ExitStatus_Swapped(res) == IF res.status = "success" THEN 1 ELSE 0

\* main's return value for a result of generate_full
ExitStatus(res) == IF res.status = "success" THEN 0 ELSE 1

\* exit status of argparse on a usage error, and after printing help
ArgparseErrorStatus == 2
ArgparseHelpStatus == 0

\* ----------------------------------------------------------------- actions
\* main(): parser.parse_args().  A usage error or -h leaves through
\* SystemExit, before the try block.
ParseArgs ==
  /\ pc = "main"
  /\ \E kind \in ArgvKinds :
       /\ argvKind' = kind
       /\ \/ /\ kind = "topic"
             /\ \E t \in Topics, k \in KeyValues :
                  args' = [topic |-> t, api_key |-> k]
             /\ pc' = "agent_init"
             /\ exitCode' = exitCode
          \/ /\ kind = "missing_topic"
             /\ exitCode' = ArgparseErrorStatus
             /\ pc' = "exited"
             /\ args' = args
          \/ /\ kind = "help"
             /\ exitCode' = ArgparseHelpStatus
             /\ pc' = "exited"
             /\ args' = args
  /\ UNCHANGED << state, env, api_key, client, log_buffer, reasoning, code,
                  requirements, result, fatal, fs, calls, written, raisedIn,
                  fs0, prev, runs >>

\* AICodeAgent.__init__, called inside main's try block
AgentInit ==
  /\ pc = "agent_init"
  /\ \E e \in KeyValues :
       /\ env' = e
       /\ api_key' = PyOr(args.api_key, e)
  /\ IF CredentialMissing(api_key')
       THEN \* ValueError, caught by main: "Fatal error", return 1
            /\ fatal' = TRUE
            /\ exitCode' = 1
            /\ pc' = "exited"
            /\ UNCHANGED << client, log_buffer >>
       ELSE /\ client' = TRUE
            /\ log_buffer' = <<>>
            /\ pc' = "generate_full"
            /\ UNCHANGED << fatal, exitCode >>
  /\ UNCHANGED << state, argvKind, args, reasoning, code, requirements,
                  result, fs, calls, written, raisedIn, fs0, prev, runs >>

\* generate_full's except branch
Catch(buf, msg, stage) ==
  /\ log_buffer' = Log(buf, "ERROR", msg)
  /\ result' = ErrorResult(buf, msg)
  /\ state' = "ERROR"
  /\ raisedIn' = stage

\* generate_full: entry
GenerateFull ==
  /\ pc = "generate_full"
  /\ state = "NONE"
  /\ log_buffer' = Log(log_buffer, "START",
                        <<"Generating code for topic: ">> \o args.topic)
  /\ state' = "START"
  /\ UNCHANGED << pc, argvKind, args, env, api_key, client, reasoning, code,
                  requirements, result, exitCode, fatal, fs, calls, written,
                  raisedIn, fs0, prev, runs >>

\* reasoning_step: one completion call, which returns a text or raises
ReasoningStep ==
  /\ pc = "generate_full"
  /\ state = "START"
  /\ calls' = Append(calls, "reasoning")
  /\ LET buf == Log(log_buffer, "SENSE", <<"Reading topic: ">> \o args.topic)
     IN \/ /\ Catch(buf, ApiError, "reasoning")
           /\ UNCHANGED reasoning
        \/ \E r \in Reasonings :
             /\ reasoning' = r
             /\ log_buffer' = Log(buf, "REASON",
                                   <<"Analysis complete:", "\n">> \o r)
             /\ state' = "ANALYZED"
             /\ UNCHANGED << result, raisedIn >>
  /\ UNCHANGED << pc, argvKind, args, env, api_key, client, code,
                  requirements, exitCode, fatal, fs, written, fs0, prev, runs >>

\* generate_code_step
GenerateCodeStep ==
  /\ pc = "generate_full"
  /\ state = "ANALYZED"
  /\ calls' = Append(calls, "generate")
  /\ LET buf == Log(log_buffer, "ACT-GENERATE", <<"Starting code generation...">>)
     IN \/ /\ Catch(buf, ApiError, "generate")
           /\ UNCHANGED code
        \/ \E c \in CodeTexts :
             /\ code' = c
             /\ log_buffer' = Log(buf, "ACT-GENERATE",
                                   <<"Generated code (", ToString(Len(c)), " chars)">>)
             /\ state' = "GENERATED"
             /\ UNCHANGED << result, raisedIn >>
  /\ UNCHANGED << pc, argvKind, args, env, api_key, client, reasoning,
                  requirements, exitCode, fatal, fs, written, fs0, prev, runs >>

\* generate_requirements, taken when the reasoning text mentions python
GenerateRequirements ==
  /\ pc = "generate_full"
  /\ state = "GENERATED"
  /\ NeedsRequirements(reasoning)
  /\ calls' = Append(calls, "requirements")
  /\ \/ /\ Catch(log_buffer, ApiError, "requirements")
        /\ UNCHANGED requirements
     \/ \E q \in RequirementTexts :
          /\ requirements' = Some(q)
          /\ log_buffer' = Log(log_buffer, "ACT-GENERATE",
                                <<"Generated requirements">>)
          /\ state' = "DEPENDENCIES_INFERRED"
          /\ UNCHANGED << result, raisedIn >>
  /\ UNCHANGED << pc, argvKind, args, env, api_key, client, reasoning, code,
                  exitCode, fatal, fs, written, fs0, prev, runs >>

\* `requirements = None` kept when the reasoning text does not mention python
SkipRequirements ==
  /\ pc = "generate_full"
  /\ state = "GENERATED"
  /\ ~NeedsRequirements(reasoning)
  /\ requirements' = None
  /\ state' = "SKIPPED"
  /\ UNCHANGED << pc, argvKind, args, env, api_key, client, log_buffer,
                  reasoning, code, result, exitCode, fatal, fs, calls,
                  written, raisedIn, fs0, prev, runs >>

\* save_generated_code, whose file operations may raise
SaveStep ==
  /\ pc = "generate_full"
  /\ state \in {"DEPENDENCIES_INFERRED", "SKIPPED"}
  /\ calls' = Append(calls, "save")
  /\ \E fault \in IoFaults :
       LET r == SaveGeneratedCode(fs, log_buffer, args.topic, code,
                                  requirements, fault)
       IN /\ fs' = r.fs
          /\ written' = r.written
          /\ IF r.ok
               THEN /\ log_buffer' = r.log
                    /\ state' = "SAVED"
                    /\ UNCHANGED << result, raisedIn >>
               ELSE Catch(r.log, IoError, "save")
  /\ UNCHANGED << pc, argvKind, args, env, api_key, client, reasoning, code,
                  requirements, exitCode, fatal, fs0, prev, runs >>

\* generate_full: log SUCCESS and return the success dict
ReturnSuccess ==
  /\ pc = "generate_full"
  /\ state = "SAVED"
  /\ log_buffer' = Log(log_buffer, "SUCCESS",
                        <<"Generated code saved to ", OutputDir>>)
  /\ result' = SuccessResult(log_buffer', fs)
  /\ state' = "SUCCESS"
  /\ UNCHANGED << pc, argvKind, args, env, api_key, client, reasoning, code,
                  requirements, exitCode, fatal, fs, calls, written, raisedIn,
                  fs0, prev, runs >>

\* main(): print the summary and return the exit status
MainReturn ==
  /\ pc = "generate_full"
  /\ state \in {"SUCCESS", "ERROR"}
  /\ exitCode' = ExitStatus(result)
  /\ pc' = "exited"
  /\ UNCHANGED << state, argvKind, args, env, api_key, client, log_buffer,
                  reasoning, code, requirements, result, fatal, fs, calls,
                  written, raisedIn, fs0, prev, runs >>

\* the program is started again in the same working directory
Rerun ==
  /\ pc = "exited"
  /\ runs < MaxRuns
  /\ runs' = runs + 1
  /\ fs' = fs
  /\ fs0' = fs
  /\ prev' = IF result.status = "success"
               THEN [status |-> "success", topic |-> args.topic,
                     reasoning |-> reasoning, code |-> code,
                     requirements |-> requirements,
                     language |-> fs.meta.language]
               ELSE NoPrev
  /\ pc' = "main"
  /\ state' = "NONE"
  /\ argvKind' = "none"
  /\ args' = NoArgs
  /\ env' = None
  /\ api_key' = None
  /\ client' = FALSE
  /\ log_buffer' = <<>>
  /\ reasoning' = <<>>
  /\ code' = <<>>
  /\ requirements' = None
  /\ result' = NoResult
  /\ exitCode' = NoExit
  /\ fatal' = FALSE
  /\ calls' = <<>>
  /\ written' = {}
  /\ raisedIn' = "none"

Next ==
  \/ ParseArgs
  \/ AgentInit
  \/ GenerateFull
  \/ ReasoningStep
  \/ GenerateCodeStep
  \/ GenerateRequirements
  \/ SkipRequirements
  \/ SaveStep
  \/ ReturnSuccess
  \/ MainReturn
  \/ Rerun

Spec == Init /\ [][Next]_vars

TypeOK ==
  /\ pc \in {"main", "agent_init", "generate_full", "exited"}
  /\ exitCode \in {NoExit, 0, 1, 2}
  /\ runs \in 1..MaxRuns

\* ------------------------------------------------------------------ claims

\* C1 as stated: after a successful generate_full run requirements.txt exists
\* in the output directory if and only if the reasoning text contains
\* "python" case-insensitively.
C1_ManifestIffReasoningPython ==
  state = "SUCCESS" =>
    (ReqFile \in Glob(fs) <=> Contains(Lower(reasoning), T_python))

\* C1 amended: after a successful generate_full run, the run wrote
\* requirements.txt if and only if the reasoning text contains "python"
\* case-insensitively, the stage-3 text is non-empty and the code text was
\* classified as python; requirements.txt exists in the output directory if
\* and only if this run wrote it or it was already there.
C1_ManifestWritten ==
  state = "SUCCESS" =>
    /\ ReqFile \in written <=>
         /\ Contains(Lower(reasoning), T_python)
         /\ requirements.set /\ requirements.value # <<>>
         /\ fs.meta.language = "python"
    /\ ReqFile \in written => fs.files[ReqFile] = requirements.value
    /\ ReqFile \in Glob(fs) <=> (ReqFile \in written \/ ReqFile \in Glob(fs0))

C1_Witness ==
  /\ state = "SUCCESS"
  /\ Contains(Lower(reasoning), T_python)
  /\ requirements.value # <<>>
  /\ fs.meta.language = "javascript"
  /\ ReqFile \notin Glob(fs)

\* C2: after a successful save_generated_code call the `files` list of
\* metadata.json names exactly the files the call wrote: the main source
\* file, plus requirements.txt whenever it was written.
C2_MetadataFilesExact ==
  state \in {"SAVED", "SUCCESS"} =>
    { fs.meta.files[i] : i \in 1..Len(fs.meta.files) }
      = { PathOf(n) : n \in written \ {MetaFile} }

\* C3 as stated: after every successful run, whatever runs preceded it, the
\* output directory contains exactly one of main.py and main.js, and a
\* metadata file.
C3_ExactlyOneMainInDirectory ==
  state = "SUCCESS" =>
    /\ Cardinality({MainPy, MainJs} \cap Glob(fs)) = 1
    /\ MetaFile \in Glob(fs)

\* C3 amended: every successful run writes exactly one main source file
\* (main.py or main.js, never both) holding the code text, and the metadata
\* file; a main source file of the other name is in the output directory
\* afterwards exactly when an earlier run left it there, unchanged.
C3_ExactlyOneMainWritten ==
  state = "SUCCESS" =>
    /\ Cardinality({MainPy, MainJs} \cap written) = 1
    /\ MetaFile \in written /\ MetaFile \in Glob(fs) /\ fs.meta.valid
    /\ \A m \in {MainPy, MainJs} :
         IF m \in written
           THEN m \in Glob(fs) /\ fs.files[m] = code
           ELSE /\ m \in Glob(fs) <=> m \in Glob(fs0)
                /\ m \in Glob(fs) => fs.files[m] = fs0.files[m]

C3_Witness ==
  /\ state = "SUCCESS"
  /\ {MainPy, MainJs} \subseteq Glob(fs)
  /\ Cardinality({MainPy, MainJs} \cap written) = 1

\* C4: if the stage-2 completion call raises after stage 1 succeeded, the
\* dependency stage and the writer are not invoked, the output directory is
\* left as it was, generate_full returns status "error" and main returns 1.
C4_Stage2Failure ==
  raisedIn = "generate" =>
    /\ calls = <<"reasoning", "generate">>
    /\ written = {}
    /\ fs = fs0
    /\ result.status = "error"
    /\ state = "ERROR"
    /\ pc = "exited" => exitCode = 1

C4_Witness ==
  /\ raisedIn = "generate"
  /\ pc = "exited"
  /\ MainPy \in Glob(fs0)

\* C5: with no credential (no --api-key override and the environment
\* variable unset or empty) the constructor fails before a client is built,
\* no completion call is issued, no file is written and main returns 1.
C5_MissingCredential ==
  /\ client => (api_key.set /\ api_key.value # <<>>)
  /\ calls # <<>> => client
  /\ ( /\ argvKind = "topic"
       /\ pc \in {"generate_full", "exited"}
       /\ ~(args.api_key.set /\ args.api_key.value # <<>>)
       /\ ~(env.set /\ env.value # <<>>) )
     => /\ pc = "exited"
        /\ fatal
        /\ ~client
        /\ state = "NONE"
        /\ calls = <<>>
        /\ written = {}
        /\ fs = fs0
        /\ exitCode = 1

C5_Witness ==
  /\ pc = "exited"
  /\ argvKind = "topic"
  /\ args.api_key = Some(<<>>)
  /\ env = Some(<<>>)
  /\ fatal

C7_Workflow ==
  [][LET python == Contains(Lower(reasoning'), T_python)
         full == IF python
                   THEN <<"reasoning", "generate", "requirements", "save">>
                   ELSE <<"reasoning", "generate", "save">>
         edges == { <<"NONE", "START">>, <<"START", "ANALYZED">>,
                    <<"ANALYZED", "GENERATED">>,
                    <<"GENERATED", "DEPENDENCIES_INFERRED">>,
                    <<"GENERATED", "SKIPPED">>,
                    <<"DEPENDENCIES_INFERRED", "SAVED">>,
                    <<"SKIPPED", "SAVED">>, <<"SAVED", "SUCCESS">>,
                    <<"START", "ERROR">>, <<"ANALYZED", "ERROR">>,
                    <<"GENERATED", "ERROR">>,
                    <<"DEPENDENCIES_INFERRED", "ERROR">>,
                    <<"SKIPPED", "ERROR">> }
     IN
     \* the stages invoked so far, in every state a step leads to
     /\ state' \in {"NONE", "START"} => calls' = <<>>
     /\ state' = "ANALYZED" => calls' = <<"reasoning">>
     /\ state' = "GENERATED" => calls' = <<"reasoning", "generate">>
     /\ state' = "DEPENDENCIES_INFERRED" =>
          python /\ calls' = <<"reasoning", "generate", "requirements">>
     /\ state' = "SKIPPED" => ~python /\ calls' = <<"reasoning", "generate">>
     /\ state' \in {"SAVED", "SUCCESS"} => calls' = full
     /\ state' = "ERROR" =>
          /\ calls' # <<>>
          /\ calls' = SubSeq(full, 1, Len(calls'))
          /\ calls'[Len(calls')] = raisedIn'
     \* the steps themselves
     /\ (runs' = runs /\ state' # state) => <<state, state'>> \in edges
     /\ (runs' = runs /\ Len(calls') > Len(calls)) =>
          /\ calls' = Append(calls, calls'[Len(calls')])
          /\ state' # state
     /\ (runs' = runs /\ state \in {"ERROR", "SUCCESS"}) =>
          /\ state' = state
          /\ calls' = calls
          /\ fs' = fs
          /\ log_buffer' = log_buffer
          /\ result' = result
     /\ runs' # runs => state \in {"NONE", "ERROR", "SUCCESS"}]_vars

C7_Witness ==
  /\ state = "SUCCESS"
  /\ pc = "exited"
  /\ reasoning = <<"P","y","t","h","o","n">>
  /\ calls = <<"reasoning", "generate", "requirements", "save">>

\* C8: an exception raised by any stage of generate_full (a completion call
\* of stage 1, 2 or 3, or a file operation of the writer) is caught once, not
\* re-raised and not retried, and yields a result with status "error" that
\* carries the exception's message and the log accumulated so far, whose
\* last line is the ERROR entry.
C8_StageException ==
  [][raisedIn' # "none" =>
       LET errorLine == <<"[ts] [", "ERROR", "] ">> \o result'.error
           logs == result'.logs
           nl == { i \in 1..Len(logs) : logs[i] = "\n" }
           lastLine == IF nl = {} THEN logs
                       ELSE SubSeq(logs,
                                   (CHOOSE i \in nl : \A j \in nl : j <= i) + 1,
                                   Len(logs))
       IN
       /\ state' = "ERROR"
       /\ result'.status = "error"
       /\ result'.error = (IF raisedIn' = "save" THEN IoError ELSE ApiError)
       /\ logs = JoinLines(log_buffer')
       /\ log_buffer'[Len(log_buffer')] = errorLine
       /\ lastLine = errorLine
       /\ Cardinality({ i \in 1..Len(log_buffer') :
                          log_buffer'[i][2] = "ERROR" }) = 1
       /\ Cardinality({ i \in 1..Len(calls') : calls'[i] = raisedIn' }) = 1
       /\ ~fatal'
       /\ pc' = "exited" => exitCode' = 1
       \* the step that catches the exception keeps the log accumulated so far
       /\ raisedIn = "none" =>
            /\ Len(log_buffer') >= Len(log_buffer) + 1
            /\ SubSeq(log_buffer', 1, Len(log_buffer)) = log_buffer]_vars

C8_Witness ==
  /\ raisedIn = "save"
  /\ pc = "exited"
  /\ MainPy \in written
  /\ ~fs.meta.valid

\* C9: language detection in save_generated_code is a function of the code
\* text alone: python (main.py) exactly when the text contains "import" and
\* also "import os", "import sys" or "def ", javascript (main.js) otherwise;
\* the same code text gets the same classification whatever the topic, the
\* reasoning text, the requirements and the earlier runs.
C9_LanguageDetection ==
  state \in {"SAVED", "SUCCESS"} =>
    LET python ==
          /\ Contains(code, <<"i","m","p","o","r","t">>)
          /\ \/ Contains(code, <<"i","m","p","o","r","t"," ","o","s">>)
             \/ Contains(code, <<"i","m","p","o","r","t"," ","s","y","s">>)
             \/ Contains(code, <<"d","e","f"," ">>)
    IN /\ fs.meta.language = (IF python THEN "python" ELSE "javascript")
       /\ (IF python THEN MainPy ELSE MainJs) \in written
       /\ (IF python THEN MainJs ELSE MainPy) \notin written
       /\ fs.files[IF python THEN MainPy ELSE MainJs] = code
       /\ (prev.status = "success" /\ prev.code = code)
            => prev.language = fs.meta.language

C9_Witness ==
  /\ state = "SUCCESS"
  /\ prev.status = "success"
  /\ prev.code = code
  /\ code = T_import \o <<" ","x","\n">> \o T_def \o <<"f">>
  /\ prev.topic # args.topic
  /\ prev.reasoning # reasoning
  /\ fs.meta.language = "python"

\* C10: re-running a successful run with the same topic and the same model
\* responses succeeds again (the writer does not fail on the files already
\* there) and overwrites in place: the set of files in the output directory
\* and the contents of the main source file and of the manifest are the same
\* after the second run as after the first.
C10_RerunOverwrites ==
  LET same == /\ prev.status = "success"
              /\ prev.topic = args.topic
              /\ prev.reasoning = reasoning
              /\ prev.code = code
              /\ prev.requirements = requirements
  IN
  /\ (same /\ state \in {"DEPENDENCIES_INFERRED", "SKIPPED"}) =>
       SaveGeneratedCode(fs, log_buffer, args.topic, code, requirements,
                         "none").ok
  /\ (same /\ state = "SUCCESS") =>
       /\ Glob(fs) = Glob(fs0)
       /\ result.files = Glob(fs0)
       /\ \A n \in {MainPy, MainJs, ReqFile} :
            n \in Glob(fs) => fs.files[n] = fs0.files[n]
       /\ fs.meta.valid

C10_Witness ==
  /\ state = "SUCCESS"
  /\ prev.status = "success"
  /\ prev.topic = args.topic
  /\ prev.reasoning = reasoning
  /\ prev.code = code
  /\ prev.requirements = requirements
  /\ ReqFile \in written
  /\ Glob(fs) = {MainPy, ReqFile, MetaFile}
====
